---- MODULE Spec2Model ----
(***************************************************************************)
(* The ABC rejection sampler of abc_interact.ipynb (rejection_sampler and  *)
(* its collaborators lnprior, propose_step, simulate_dataset, distance),   *)
(* modelled statement by statement.                                        *)
(*                                                                         *)
(* Real numbers are modelled on an integer grid: mean1, mean2 and std in   *)
(* whole units, fraction as a numerator over FracDen.  The random source   *)
(* is modelled by nondeterministic choice: a draw of randn is a vector of  *)
(* grid steps, a distance is any value of Dists.                           *)
(*                                                                         *)
(* PairSpec runs two companions beside the call, one step for each of its  *)
(* steps: a second call with quiet negated, and the inline loop of the     *)
(* one-parameter notebook (src/unnamed/part_001), both fed what the call   *)
(* drew.                                                                   *)
(***************************************************************************)
EXTENDS Integers, Sequences, FiniteSets

VARIABLES
    theta,           \* the current parameter vector (parameter, rebound on acceptance)
    h,               \* tolerance
    n_steps,         \* target number of samples
    scale,           \* proposal scale
    quiet,           \* progress reporting switch
    accepted_steps,  \* local counter
    total_steps,     \* local counter
    samples,         \* the chain: n_steps rows
    printed,         \* set of already reported values of accepted_steps
    new_theta,       \* local: the candidate (<<>> before its first assignment)
    y_sim,           \* local: the simulated dataset (<<>> before its first assignment)
    dist,            \* local: the distance score (not read before its first assignment)
    pc,              \* position in rejection_sampler
    out,             \* what has been printed so far
    ret,             \* <<>> until the function returns, then <<returned value>>
    err,             \* the exception that ended the run, "" if none
    theta0,          \* history: the caller's initial_theta
    start,           \* history: theta, counters and chain when the current iteration began
    passed,          \* history: number of candidates that passed the prior check
    n_simulated,     \* history: number of calls of simulate_y
    n_scored,        \* history: number of calls of distance
    off_support,     \* history: simulate_y or distance was called for a candidate
                     \*          outside the prior support
    dist_rejected,   \* history: number of candidates rejected on distance
    chosen,          \* history: the accepted candidates, in order of acceptance
    last_write,      \* history: the latest chain write, <<slot, value, dist>>
    y_obs,           \* the observed dataset (parameter, bound to the global y_obs)
    caller_theta,    \* the content of the vector object the caller passed as theta
    theta_obj,       \* the object theta is bound to
    new_obj,         \* the object new_theta is bound to ("none" before its first assignment)
    twin,            \* a second call of rejection_sampler: same arguments but quiet
                     \* negated, fed the same random draws
    inline           \* the loop of the one-parameter notebook, fed the same candidates,
                     \* prior verdicts and distance scores

vars == <<theta, h, n_steps, scale, quiet, accepted_steps, total_steps, samples,
          printed, new_theta, y_sim, dist, pc, out, ret, err,
          theta0, start, passed, n_simulated, n_scored, off_support, dist_rejected,
          chosen, last_write, y_obs, caller_theta, theta_obj, new_obj, twin, inline>>

config == <<h, n_steps, scale, quiet, theta0, y_obs>>
objects == <<caller_theta, theta_obj, new_obj>>
companions == <<twin, inline>>
history == <<start, passed, n_simulated, n_scored, off_support, dist_rejected,
             chosen, last_write>>

----------------------------------------------------------------------------
(* Bounds of the model *)

MaxSteps == 2        \* n_steps ranges over 0..MaxSteps
MaxScale == 1        \* scale ranges over 0..MaxScale
MaxDist == 2         \* a distance ranges over 0..MaxDist
MaxRejects == 1      \* at most this many candidates are rejected on distance
FracDen == 2         \* grid of the mixture fraction: fraction = theta[4] / FracDen

(* Program constants *)

Dim == 4             \* mean1, mean2, std, fraction = theta
MeanLo == -10
MeanHi == 20
StdLo == 0
StdHi == 10
LenX == 500          \* len(x)
PrintEvery == 1000

----------------------------------------------------------------------------
(* The collaborators *)

Finite(v) == [inf |-> 0, val |-> v]
NegInf == [inf |-> -1, val |-> 0]

\* np.isfinite
isfinite(v) == v.inf = 0

\* lnprior: 0 inside the support, -inf outside. theta has Dim components
\* (the unpacking statement fails otherwise, see PriorCheck).
lnprior(t) ==
    IF /\ MeanLo < t[1] /\ t[1] < MeanHi
       /\ MeanLo < t[2] /\ t[2] < MeanHi
       /\ StdLo < t[3] /\ t[3] < StdHi
       /\ 0 <= t[4] /\ t[4] <= 1 * FracDen
    THEN Finite(0)
    ELSE NegInf

\* np.random.randn(n): one draw per component. The model draws one grid step
\* down, none or one grid step up, in at most one component of the vector.
randn(n) ==
    { z \in [1..n -> {-1, 0, 1}] :
        Cardinality({i \in 1..n : z[i] # 0}) <= 1 }

propose_step_unscaled(t, s, z) == [i \in 1..Len(t) |-> t[i] + z[i]]

\* propose_step: theta + scale * draw, a new vector
propose_step(t, s, z) == [i \in 1..Len(t) |-> t[i] + s * z[i]]

\* int(num / den): the quotient, rounded towards zero
int(num, den) == IF num >= 0 THEN num \div den ELSE -((-num) \div den)

simulate_dataset_swapped(t) ==
    << int(t[4] * LenX, FracDen), int((FracDen - t[4]) * LenX, FracDen) >>

\* simulate_dataset: the sizes of the two mixture components,
\* int((1-fraction) * len(x)) and int(fraction * len(x))
simulate_dataset(t) ==
    << int((FracDen - t[4]) * LenX, FracDen), int(t[4] * LenX, FracDen) >>

\* np.random.randn(n) raises ValueError on a negative n, so simulate_dataset
\* fails when one of the two sizes is negative
SimulateRaises(t) == \E i \in 1..2 : simulate_dataset(t)[i] < 0

\* y_obs: the sizes of the two mixture components of the observations,
\* int((1 - 0.3) * len(x)) and int(0.3 * len(x))
Observed == << (7 * LenX) \div 10, (3 * LenX) \div 10 >>

\* distance: any value the statistic can take
Dists == 0..MaxDist

\* the tolerances of the model: below every distance, the least distance
\* (accepted only at the boundary), and one above it
Tolerances == {-1, 0, 1}

\* np.zeros((n, d))
zeros(n, d) == [i \in 1..n |-> [j \in 1..d |-> 0]]

----------------------------------------------------------------------------
(* The conditions of rejection_sampler *)

LoopCond_inclusive(a, n) == a <= n

\* while accepted_steps < n_steps
LoopCond(a, n) == a < n

\* a vector of Dim components on which the prior is finite
InSupport(t) == Len(t) = Dim /\ isfinite(lnprior(t))

PriorGate_open(t) == TRUE

\* if np.isfinite(prior(new_theta))
PriorGate(t) == isfinite(lnprior(t))

AcceptCond_strict(d, tol) == d < tol

AcceptCond_flipped(d, tol) == d >= tol

\* if dist <= h
AcceptCond(d, tol) == d <= tol

ProgressDue_repeated(a, p) == a % PrintEvery = 0

\* accepted_steps % 1000 == 0 and accepted_steps not in printed
ProgressDue(a, p) == a % PrintEvery = 0 /\ a \notin p

AfterProgress_nested(q) == IF q THEN "while" ELSE "propose"

\* the statement after the progress block: the proposal, whatever quiet is
AfterProgress(q) == "propose"

Unwind_swallowed(e) == "while"

\* no statement of rejection_sampler catches an exception: one raised in the
\* body leaves the function
Unwind(e) == "error"

Snapshot == [theta |-> theta, total_steps |-> total_steps,
             accepted_steps |-> accepted_steps, samples |-> samples]

----------------------------------------------------------------------------
(* Initial states: a call rejection_sampler(theta, h, n_steps, scale, quiet) *)

InitThetas ==
    { << MeanHi - 1, 0, StdLo + 1, FracDen >>,   \* inside the prior, at its edge
      << 0, 0, StdLo, 0 >>,                      \* outside the prior (std = 0)
      << 0, 0, 1 >> }                            \* wrong length

Init ==
    /\ theta \in InitThetas
    /\ h \in Tolerances
    /\ n_steps \in 0..MaxSteps
    /\ scale \in 0..MaxScale
    /\ quiet \in BOOLEAN
    /\ accepted_steps = 0
    /\ total_steps = 0
    /\ samples = zeros(n_steps, Len(theta))
    /\ printed = {}
    /\ new_theta = <<>>
    /\ y_sim = <<>>
    /\ dist = 0
    /\ pc = "while"
    /\ out = <<>>
    /\ ret = <<>>
    /\ err = ""
    /\ theta0 = theta
    /\ start = Snapshot
    /\ passed = 0
    /\ n_simulated = 0
    /\ n_scored = 0
    /\ off_support = FALSE
    /\ dist_rejected = 0
    /\ chosen = <<>>
    /\ last_write = <<>>
    /\ y_obs = Observed
    /\ caller_theta = theta
    /\ theta_obj = "arg"
    /\ new_obj = "none"
    /\ twin = [theta |-> theta, accepted_steps |-> 0, total_steps |-> 0,
               samples |-> zeros(n_steps, Len(theta)), printed |-> {},
               new_theta |-> <<>>, dist |-> 0, pc |-> "while",
               out |-> <<>>, ret |-> <<>>, err |-> ""]
    /\ inline = [theta |-> theta, accepted_steps |-> 0,
                 samples |-> zeros(n_steps, Len(theta)), printed |-> {},
                 new_theta |-> <<>>, prior |-> Finite(0), distance |-> 0,
                 pc |-> "while", out |-> <<>>, err |-> ""]

----------------------------------------------------------------------------
(* The steps of rejection_sampler *)

\* while accepted_steps < n_steps:
LoopTest ==
    /\ pc = "while"
    /\ IF LoopCond(accepted_steps, n_steps)
       THEN pc' = "progress" /\ start' = Snapshot
       ELSE pc' = "report" /\ start' = start
    /\ UNCHANGED <<theta, config, objects, accepted_steps, total_steps, samples, printed,
                   new_theta, y_sim, dist, out, ret, err,
                   passed, n_simulated, n_scored, off_support, dist_rejected,
                   chosen, last_write>>

\* if not quiet: if ...: printed.add(accepted_steps); print(...)
Progress ==
    /\ pc = "progress"
    /\ IF ~quiet /\ ProgressDue(accepted_steps, printed)
       THEN /\ printed' = printed \cup {accepted_steps}
            /\ out' = Append(out, <<"Sample", accepted_steps, n_steps>>)
       ELSE UNCHANGED <<printed, out>>
    /\ pc' = AfterProgress(quiet)
    /\ UNCHANGED <<theta, config, objects, accepted_steps, total_steps, samples,
                   new_theta, y_sim, dist, ret, err, history>>

ResultObject_inplace(o) == o

\* theta + scale * np.random.randn(len(theta)) evaluates to a new array
ResultObject(o) == "new"

\* new_theta = propose_step(theta, scale)
\* (a vector written in place changes under every name bound to it)
Propose ==
    /\ pc = "propose"
    /\ \E z \in randn(Len(theta)) : new_theta' = propose_step(theta, scale, z)
    /\ new_obj' = ResultObject(theta_obj)
    /\ theta' = IF new_obj' = theta_obj THEN new_theta' ELSE theta
    /\ caller_theta' = IF new_obj' = "arg" THEN new_theta' ELSE caller_theta
    /\ pc' = "prior"
    /\ UNCHANGED <<config, theta_obj, accepted_steps, total_steps, samples, printed,
                   y_sim, dist, out, ret, err, history>>

\* if np.isfinite(prior(new_theta)):
\* (lnprior's unpacking raises ValueError on a vector that has not Dim components)
PriorCheck ==
    /\ pc = "prior"
    /\ IF Len(new_theta) # Dim
       THEN pc' = Unwind("ValueError") /\ err' = "ValueError" /\ passed' = passed
       ELSE /\ err' = err
            /\ pc' = IF PriorGate(new_theta) THEN "simulate" ELSE "while"
            /\ passed' = IF InSupport(new_theta) THEN passed + 1 ELSE passed
    /\ UNCHANGED <<theta, config, objects, accepted_steps, total_steps, samples, printed,
                   new_theta, y_sim, dist, out, ret,
                   start, n_simulated, n_scored, off_support, dist_rejected,
                   chosen, last_write>>

\* y_sim = simulate_y(new_theta)
Simulate ==
    /\ pc = "simulate"
    /\ IF SimulateRaises(new_theta)
       THEN pc' = Unwind("ValueError") /\ err' = "ValueError" /\ y_sim' = y_sim
       ELSE pc' = "distance" /\ err' = err /\ y_sim' = simulate_dataset(new_theta)
    /\ n_simulated' = n_simulated + 1
    /\ off_support' = (off_support \/ ~InSupport(new_theta))
    /\ UNCHANGED <<theta, config, objects, accepted_steps, total_steps, samples, printed,
                   new_theta, dist, out, ret,
                   start, passed, n_scored, dist_rejected, chosen, last_write>>

\* dist = distance(y_obs, y_sim)
\* (the model stops rejecting on distance after MaxRejects rejections)
Distance ==
    /\ pc = "distance"
    /\ \E d \in Dists :
         /\ AcceptCond(d, h) \/ total_steps - accepted_steps < MaxRejects
         /\ dist' = d
    /\ n_scored' = n_scored + 1
    /\ off_support' = (off_support \/ ~InSupport(new_theta))
    /\ pc' = "count"
    /\ UNCHANGED <<theta, config, objects, accepted_steps, total_steps, samples, printed,
                   new_theta, y_sim, out, ret, err,
                   start, passed, n_simulated, dist_rejected, chosen, last_write>>

\* total_steps += 1
Count ==
    /\ pc = "count"
    /\ total_steps' = total_steps + 1
    /\ pc' = "compare"
    /\ UNCHANGED <<theta, config, objects, accepted_steps, samples, printed,
                   new_theta, y_sim, dist, out, ret, err, history>>

\* if dist <= h:
Compare ==
    /\ pc = "compare"
    /\ IF AcceptCond(dist, h)
       THEN /\ pc' = "set_theta"
            /\ chosen' = Append(chosen, new_theta)
            /\ dist_rejected' = dist_rejected
       ELSE /\ pc' = "while"
            /\ chosen' = chosen
            /\ dist_rejected' = dist_rejected + 1
    /\ UNCHANGED <<theta, config, objects, accepted_steps, total_steps, samples, printed,
                   new_theta, y_sim, dist, out, ret, err,
                   start, passed, n_simulated, n_scored, off_support, last_write>>

\* theta = new_theta: theta is bound to the candidate's array, which both names
\* now share ("cur")
SetTheta ==
    /\ pc = "set_theta"
    /\ theta' = new_theta
    /\ theta_obj' = "cur"
    /\ new_obj' = "cur"
    /\ pc' = "write"
    /\ UNCHANGED <<config, caller_theta, accepted_steps, total_steps, samples, printed,
                   new_theta, y_sim, dist, out, ret, err, history>>

WriteIndex_stuck(a) == 1

\* the index samples[accepted_steps, :] writes, counted from 1
WriteIndex(a) == a + 1

\* samples[accepted_steps, :] = new_theta
Write ==
    /\ pc = "write"
    /\ samples' = [samples EXCEPT ![WriteIndex(accepted_steps)] = new_theta]
    /\ last_write' = <<WriteIndex(accepted_steps), new_theta, dist>>
    /\ pc' = "incr"
    /\ UNCHANGED <<theta, config, objects, accepted_steps, total_steps, printed,
                   new_theta, y_sim, dist, out, ret, err,
                   start, passed, n_simulated, n_scored, off_support, dist_rejected,
                   chosen>>

\* accepted_steps += 1
Incr ==
    /\ pc = "incr"
    /\ accepted_steps' = accepted_steps + 1
    /\ pc' = "while"
    /\ UNCHANGED <<theta, config, objects, total_steps, samples, printed,
                   new_theta, y_sim, dist, out, ret, err, history>>

Rate_swapped(a, t) == <<t, a>>

\* accepted_steps/total_steps, as numerator and denominator
Rate(a, t) == <<a, t>>

\* print(f'Acceptance rate: {accepted_steps/total_steps}')
\* the rate is kept as the pair numerator, denominator
Report ==
    /\ pc = "report"
    /\ IF total_steps = 0
       THEN pc' = Unwind("ZeroDivisionError") /\ err' = "ZeroDivisionError" /\ out' = out
       ELSE /\ pc' = "return"
            /\ err' = err
            /\ out' = Append(out, <<"Acceptance rate">> \o Rate(accepted_steps, total_steps))
    /\ UNCHANGED <<theta, config, objects, accepted_steps, total_steps, samples, printed,
                   new_theta, y_sim, dist, ret, history>>

\* return samples
Return ==
    /\ pc = "return"
    /\ ret' = <<samples>>
    /\ pc' = "done"
    /\ UNCHANGED <<theta, config, objects, accepted_steps, total_steps, samples, printed,
                   new_theta, y_sim, dist, out, err, history>>

----------------------------------------------------------------------------
(* The companion runs, which take one step with every step of the run *)

\* rejection_sampler as a function: the record r of a call's variables after
\* the statement at r.pc, with quiet q, the draw z and the distance score d
SamplerStep(r, q, z, d) ==
    CASE r.pc = "while" ->
           [r EXCEPT !.pc = IF LoopCond(r.accepted_steps, n_steps)
                            THEN "progress" ELSE "report"]
      [] r.pc = "progress" ->
           IF ~q /\ ProgressDue(r.accepted_steps, r.printed)
           THEN [r EXCEPT !.printed = @ \cup {r.accepted_steps},
                          !.out = Append(@, <<"Sample", r.accepted_steps, n_steps>>),
                          !.pc = AfterProgress(q)]
           ELSE [r EXCEPT !.pc = AfterProgress(q)]
      [] r.pc = "propose" ->
           [r EXCEPT !.new_theta = propose_step(r.theta, scale, z), !.pc = "prior"]
      [] r.pc = "prior" ->
           IF Len(r.new_theta) # Dim
           THEN [r EXCEPT !.pc = Unwind("ValueError"), !.err = "ValueError"]
           ELSE [r EXCEPT !.pc = IF PriorGate(r.new_theta) THEN "simulate" ELSE "while"]
      [] r.pc = "simulate" ->
           IF SimulateRaises(r.new_theta)
           THEN [r EXCEPT !.pc = Unwind("ValueError"), !.err = "ValueError"]
           ELSE [r EXCEPT !.pc = "distance"]
      [] r.pc = "distance" -> [r EXCEPT !.dist = d, !.pc = "count"]
      [] r.pc = "count" -> [r EXCEPT !.total_steps = @ + 1, !.pc = "compare"]
      [] r.pc = "compare" ->
           [r EXCEPT !.pc = IF AcceptCond(r.dist, h) THEN "set_theta" ELSE "while"]
      [] r.pc = "set_theta" -> [r EXCEPT !.theta = r.new_theta, !.pc = "write"]
      [] r.pc = "write" ->
           [r EXCEPT !.samples[WriteIndex(r.accepted_steps)] = r.new_theta,
                     !.pc = "incr"]
      [] r.pc = "incr" -> [r EXCEPT !.accepted_steps = @ + 1, !.pc = "while"]
      [] r.pc = "report" ->
           IF r.total_steps = 0
           THEN [r EXCEPT !.pc = Unwind("ZeroDivisionError"), !.err = "ZeroDivisionError"]
           ELSE [r EXCEPT !.out = Append(@, <<"Acceptance rate">>
                                            \o Rate(r.accepted_steps, r.total_steps)),
                          !.pc = "return"]
      [] r.pc = "return" -> [r EXCEPT !.ret = <<r.samples>>, !.pc = "done"]
      [] OTHER -> r

\* while accepted_steps < n_steps:                  (the inline loop)
InlineLoopCond(a, n) == a < n

\* if accepted_steps % 1000 == 0 and accepted_steps not in printed:
InlineProgressDue(a, p) == a % PrintEvery = 0 /\ a \notin p

InlineAccept_strict(d, tol) == d < tol

\* if distance <= h:
InlineAccept(d, tol) == d <= tol

\* The inline loop as a function: the record r of the cell's variables after
\* the statement at r.pc, given the candidate c that propose_step returns,
\* the outcome of lnprior on it (raises, or the value v) and the score d of
\* summary_stats. prior = lnprior(new_theta) and the test of prior that
\* follows are one step; the cell ends ("end") when the loop is left.
InlineStep(r, c, raises, v, d) ==
    CASE r.pc = "while" ->
           [r EXCEPT !.pc = IF InlineLoopCond(r.accepted_steps, n_steps)
                            THEN "progress" ELSE "end"]
      [] r.pc = "progress" ->
           IF InlineProgressDue(r.accepted_steps, r.printed)
           THEN [r EXCEPT !.printed = @ \cup {r.accepted_steps},
                          !.out = Append(@, <<"Sample", r.accepted_steps, n_steps>>),
                          !.pc = "propose"]
           ELSE [r EXCEPT !.pc = "propose"]
      [] r.pc = "propose" -> [r EXCEPT !.new_theta = c, !.pc = "prior"]
      [] r.pc = "prior" ->
           IF raises
           THEN [r EXCEPT !.pc = "error", !.err = "ValueError"]
           ELSE [r EXCEPT !.prior = v,
                          !.pc = IF isfinite(v) THEN "simulate" ELSE "while"]
      [] r.pc = "simulate" -> [r EXCEPT !.pc = "distance"]
      [] r.pc = "distance" -> [r EXCEPT !.distance = d, !.pc = "compare"]
      [] r.pc = "compare" ->
           [r EXCEPT !.pc = IF InlineAccept(r.distance, h) THEN "set_theta" ELSE "while"]
      [] r.pc = "set_theta" -> [r EXCEPT !.theta = r.new_theta, !.pc = "write"]
      [] r.pc = "write" ->
           [r EXCEPT !.samples[r.accepted_steps + 1] = r.new_theta, !.pc = "incr"]
      [] r.pc = "incr" -> [r EXCEPT !.accepted_steps = @ + 1, !.pc = "while"]
      [] OTHER -> r

\* the statements of rejection_sampler that the inline loop has not:
\* total_steps += 1, the report and the return
SamplerOnlyPcs == {"count", "report", "return"}

\* The companions' step that goes with a step of the run: the twin takes the
\* run's draw (the z behind the new candidate) and score; the inline loop
\* takes the run's candidate, the prior's outcome on it and the score, and
\* waits while the run executes a statement it has not.
Accompany ==
    /\ twin' = SamplerStep(twin, ~quiet,
                           IF pc = "propose"
                           THEN CHOOSE z \in randn(Len(theta)) :
                                    new_theta' = propose_step(theta, scale, z)
                           ELSE <<>>,
                           dist')
    /\ inline' = IF pc \in SamplerOnlyPcs
                 THEN inline
                 ELSE InlineStep(inline, new_theta', Len(new_theta) # Dim,
                                 IF Len(new_theta) = Dim THEN lnprior(new_theta)
                                                         ELSE NegInf,
                                 dist')

Alone == UNCHANGED companions

\* one statement of rejection_sampler; the companions stay as they are
Next ==
    \/ LoopTest /\ Alone
    \/ Progress /\ Alone
    \/ Propose /\ Alone
    \/ PriorCheck /\ Alone
    \/ Simulate /\ Alone
    \/ Distance /\ Alone
    \/ Count /\ Alone
    \/ Compare /\ Alone
    \/ SetTheta /\ Alone
    \/ Write /\ Alone
    \/ Incr /\ Alone
    \/ Report /\ Alone
    \/ Return /\ Alone

Spec == Init /\ [][Next]_vars

\* the run together with its two companions
PairNext ==
    \/ LoopTest /\ Accompany
    \/ Progress /\ Accompany
    \/ Propose /\ Accompany
    \/ PriorCheck /\ Accompany
    \/ Simulate /\ Accompany
    \/ Distance /\ Accompany
    \/ Count /\ Accompany
    \/ Compare /\ Accompany
    \/ SetTheta /\ Accompany
    \/ Write /\ Accompany
    \/ Incr /\ Accompany
    \/ Report /\ Accompany
    \/ Return /\ Accompany

PairSpec == Init /\ [][PairNext]_vars

----------------------------------------------------------------------------
(* Fairness: the loop keeps running, and the random source is strongly fair *)
(* to the accepting outcome: a candidate inside the prior is drawn, and a   *)
(* distance within the tolerance is scored, infinitely often when possible. *)
(* The runs are those with progress reporting on: quiet decides no branch   *)
(* but the report's.                                                        *)

ProposeValid == Propose /\ Alone /\ InSupport(new_theta')

ScoreWithin == Distance /\ Alone /\ dist' <= h

LiveInit == Init /\ ~quiet

\* Rejections on distance have no bound in the code. Past the MaxRejects that
\* Distance allows, a dataset that scores above h is still rejected and the
\* loop goes on; only the count of that candidate (total_steps and the history
\* counters) is left out, which decides no branch of the loop.
RejectUncounted ==
    /\ pc = "distance"
    /\ total_steps - accepted_steps >= MaxRejects
    /\ \E d \in Dists : ~AcceptCond(d, h) /\ dist' = d
    /\ pc' = "while"
    /\ passed' = passed - 1
    /\ n_simulated' = n_simulated - 1
    /\ UNCHANGED companions
    /\ UNCHANGED <<theta, config, objects, accepted_steps, total_steps, samples, printed,
                   new_theta, y_sim, out, ret, err,
                   start, n_scored, off_support, dist_rejected, chosen, last_write>>

LiveNext == Next \/ RejectUncounted

LiveSpec ==
    /\ LiveInit
    /\ [][LiveNext]_vars
    /\ WF_vars(LiveNext)
    /\ SF_vars(ProposeValid)
    /\ SF_vars(ScoreWithin)

----------------------------------------------------------------------------
(* Properties *)

BodyPcs == {"progress", "propose", "prior", "simulate", "distance", "count",
            "compare", "set_theta", "write", "incr"}

ExitPcs == {"report", "return", "done"}

\* the latest candidate went through the prior check and passed / failed it
LastPassedPrior == InSupport(new_theta)
LastFailedPrior == Len(new_theta) = Dim /\ ~isfinite(lnprior(new_theta))

\* the number of chain slots written so far
Filled == accepted_steps + (IF pc = "incr" THEN 1 ELSE 0)

\* C1: 0 <= accepted_steps <= total_steps in every state, also between the two
\* increments; the loop body runs only while accepted_steps < n_steps and the
\* loop is left exactly with accepted_steps = n_steps.
C1_CountersAndExit ==
    /\ 0 <= accepted_steps
    /\ accepted_steps <= total_steps
    /\ accepted_steps <= n_steps
    /\ pc \in BodyPcs => accepted_steps < n_steps
    /\ pc \in ExitPcs => accepted_steps = n_steps
    /\ (pc = "error" /\ err = "ZeroDivisionError") => accepted_steps = n_steps

\* the last acceptance has been counted in total_steps and not yet in accepted_steps
C1_Witness ==
    /\ pc = "incr"
    /\ accepted_steps + 1 = n_steps
    /\ total_steps > accepted_steps + 1

\* C2: the chain has exactly n_steps slots; every filled slot holds the
\* candidate accepted for it, and the latest write (so, state after state,
\* every write) stored a candidate whose distance in that iteration was <= h.
C2_ChainSlots ==
    /\ Len(samples) = n_steps
    /\ \A i \in 1..n_steps : Len(samples[i]) = Len(theta0)
    /\ ret # <<>> => Len(ret[1]) = n_steps
    /\ \A k \in 1..Filled : samples[k] = chosen[k]
    /\ Filled > 0 => last_write # <<>>
    /\ last_write # <<>> =>
          /\ last_write[1] = Filled
          /\ last_write[2] = samples[Filled]
          /\ last_write[3] <= h
    /\ pc \in ExitPcs => Filled = n_steps

C2_Witness ==
    /\ pc = "done"
    /\ n_steps = MaxSteps
    /\ dist_rejected > 0
    /\ last_write[3] < h

C4_PriorGateFirst ==
    /\ ~off_support
    /\ \A k \in 1..Filled : InSupport(samples[k])
    /\ \A k \in 1..Len(chosen) : InSupport(chosen[k])
    /\ pc \in {"simulate", "distance", "count", "compare",
               "set_theta", "write", "incr"} => InSupport(new_theta)
    /\ n_simulated = passed - (IF pc = "simulate" THEN 1 ELSE 0)
    /\ n_scored = n_simulated - (IF pc = "distance" THEN 1 ELSE 0)

\* a candidate outside the support was turned away while the chain has entries
C4_Witness ==
    /\ pc = "while"
    /\ LastFailedPrior
    /\ accepted_steps >= 1
    /\ n_simulated = accepted_steps

\* C5: after an iteration whose candidate failed the prior check, both
\* counters, the current theta and the chain are as they were when the
\* iteration began, and every candidate is a perturbation of that theta.
C5_PriorRejectFrame ==
    /\ (pc = "while" /\ LastFailedPrior) =>
          /\ total_steps = start.total_steps
          /\ accepted_steps = start.accepted_steps
          /\ theta = start.theta
          /\ samples = start.samples
    /\ pc = "prior" =>
          /\ theta = start.theta
          /\ \E z \in randn(Len(theta)) : new_theta = propose_step(theta, scale, z)

\* a candidate has just failed the prior check, after an acceptance and a
\* rejection on distance
C5_Witness ==
    /\ pc = "while"
    /\ LastFailedPrior
    /\ new_theta # theta
    /\ total_steps >= 2
    /\ accepted_steps >= 1

\* C6: after an iteration whose candidate passed the prior check and scored
\* above h, total_steps has grown by exactly one and the current theta,
\* accepted_steps and every slot of the chain are unchanged.
C6_DistanceRejectFrame ==
    (pc = "while" /\ LastPassedPrior /\ dist > h) =>
        /\ total_steps = start.total_steps + 1
        /\ accepted_steps = start.accepted_steps
        /\ theta = start.theta
        /\ samples = start.samples

C6_Witness ==
    /\ pc = "while"
    /\ LastPassedPrior
    /\ dist > h
    /\ accepted_steps >= 1
    /\ new_theta # theta

\* C7: total_steps is the number of candidates that passed the prior check
\* (less the one whose distance is still being computed), which is the number
\* of accepted plus the number of distance-rejected candidates.
C7_TotalCountsPriorPassed ==
    LET inflight == IF pc \in {"simulate", "distance", "count"} THEN 1 ELSE 0
        undecided == IF pc = "compare" THEN 1 ELSE 0
    IN  /\ total_steps + inflight = passed
        /\ total_steps = Len(chosen) + dist_rejected + undecided

C7_Witness ==
    /\ pc = "while"
    /\ LastFailedPrior
    /\ Len(chosen) >= 1
    /\ dist_rejected >= 1
    /\ total_steps = passed

\* C8: the k-th accepted candidate is in slot k, a written slot never changes
\* again, a write goes to slot accepted_steps, and neither counter decreases.
C8_AppendOnly ==
    /\ [](\A k \in 1..Filled : samples[k] = chosen[k])
    /\ [][ /\ accepted_steps' >= accepted_steps
           /\ total_steps' >= total_steps
           /\ \A k \in 1..Filled : samples'[k] = samples[k]
           /\ samples' # samples =>
                 /\ samples'[accepted_steps + 1] = chosen[accepted_steps + 1]
                 /\ \A k \in 1..n_steps :
                        k # accepted_steps + 1 => samples'[k] = samples[k] ]_vars

C8_Witness ==
    /\ pc = "done"
    /\ Filled >= 2
    /\ samples[1] # samples[2]
    /\ dist_rejected >= 1

\* C9: a run with n_steps >= 1 that ends returns the chain, filled with the
\* accepted candidates, after reporting the rate n_steps / total_steps with
\* total_steps >= n_steps > 0; it does not end in a division by zero.
C9_Output ==
    n_steps >= 1 =>
        /\ err # "ZeroDivisionError"
        /\ pc = "done" =>
              /\ ret = <<samples>>
              /\ \A k \in 1..n_steps : samples[k] = chosen[k]
              /\ accepted_steps = n_steps
              /\ out[Len(out)] = <<"Acceptance rate", n_steps, total_steps>>
              /\ 0 < n_steps
              /\ n_steps <= total_steps

\* a finished run whose rate is below 1
C9_Witness ==
    /\ pc = "done"
    /\ n_steps >= 1
    /\ out[Len(out)][2] < out[Len(out)][3]

\* an accepting outcome is possible from initial_theta (and then from every
\* later theta, which is inside the support and can be drawn again)
CanAccept ==
    /\ Len(theta0) = Dim
    /\ \E z \in randn(Len(theta0)) : InSupport(propose_step(theta0, scale, z))
    /\ \E d \in Dists : d <= h

Stopped == pc \in {"done", "error"} /\ accepted_steps = n_steps

\* C10: under strong fairness to the accepting outcome, a run in which an
\* accepting outcome is possible reaches accepted_steps = n_steps and stops.
C10_Terminates == CanAccept => <>Stopped

C10_Witness ==
    /\ Stopped
    /\ pc = "done"
    /\ n_steps = MaxSteps
    /\ dist_rejected >= 1
    /\ ~InSupport(theta0)

\* the positions of a run that has not got past the prior check
GatePcs == {"while", "progress", "propose", "prior"}

\* a call that asks for at least one sample and passes a vector of Dim components
Sampling == n_steps >= 1 /\ Len(theta0) = Dim

\* C11: while no candidate has passed the prior check the run is in the loop,
\* before the simulator call, with both counters at 0 and theta the initial
\* theta; a run that can only propose vectors outside the support (scale 0
\* from a theta outside it) stays so forever, since the loop has no other exit.
C11_NoPriorPassNoProgress ==
    Sampling =>
        /\ passed = 0 =>
              /\ pc \in GatePcs
              /\ total_steps = 0
              /\ accepted_steps = 0
              /\ n_simulated = 0
              /\ n_scored = 0
              /\ theta = theta0
              /\ ret = <<>>
              /\ err = ""
        /\ (scale = 0 /\ ~InSupport(theta0)) => passed = 0

\* a second candidate in a row has failed the prior check
C11_Witness ==
    /\ Sampling
    /\ pc = "while"
    /\ LastFailedPrior
    /\ new_theta # theta0
    /\ passed = 0
    /\ start.total_steps = 0
    /\ printed # {}

\* C12 as stated: with scale = 0 accepted_steps never reaches n_steps.
C12_ScaleZeroNeverFills ==
    (scale = 0 /\ Sampling) => accepted_steps < n_steps

\* C12, amended: with scale = 0 every candidate is initial_theta and theta
\* never moves; from an initial_theta outside the prior support nothing is
\* ever accepted and the loop is never left, from one inside it every filled
\* slot of the chain holds initial_theta.
C12_ScaleZero ==
    scale = 0 =>
        /\ theta = theta0
        /\ new_theta \in {<<>>, theta0}
        /\ \A k \in 1..Filled : samples[k] = theta0
        /\ (Sampling /\ ~InSupport(theta0)) =>
              /\ accepted_steps = 0
              /\ pc \in GatePcs
              /\ ret = <<>>

\* scale = 0 from inside the support: the run has ended, the chain full of
\* copies of initial_theta, after a rejection on distance
C12_Witness ==
    /\ scale = 0
    /\ pc = "done"
    /\ n_steps = MaxSteps
    /\ dist_rejected >= 1
    /\ \A k \in 1..n_steps : samples[k] = theta0

\* no value of the distance is below h / is at or below h
NoneBelow == \A d \in Dists : ~(d < h)
NoneWithin == \A d \in Dists : ~(d <= h)

C16_ExceptionAborts ==
    /\ [](err # "" => (pc = "error" /\ ret = <<>>))
    /\ [](pc = "error" => err # "")
    /\ [](err = "ValueError" =>
              /\ Len(new_theta) # Dim
              /\ theta = start.theta
              /\ total_steps = start.total_steps
              /\ accepted_steps = start.accepted_steps
              /\ samples = start.samples
              /\ n_simulated = 0
              /\ n_scored = 0)
    /\ [][pc # "error" /\ err = ""]_vars

\* the prior call has raised on a candidate of the wrong length
C16_Witness ==
    /\ pc = "error"
    /\ err = "ValueError"
    /\ n_steps >= 1
    /\ new_theta # <<>>
    /\ Len(new_theta) # Dim

\* the support that lnprior's docstring states: every bound strict
DocSupport(t) ==
    /\ MeanLo < t[1] /\ t[1] < MeanHi
    /\ MeanLo < t[2] /\ t[2] < MeanHi
    /\ StdLo < t[3] /\ t[3] < StdHi
    /\ 0 < t[4] /\ t[4] < 1 * FracDen

\* C17: lnprior is finite on a candidate exactly when the candidate is in the
\* support of the docstring, all bounds strict.
C17_DocstringSupport ==
    /\ Len(new_theta) = Dim =>
          (isfinite(lnprior(new_theta)) <=> DocSupport(new_theta))
    /\ pc = "simulate" => DocSupport(new_theta)

\* C15: the call with quiet negated, fed the same draws, is at the same
\* statement with the same theta, counters, candidate, score and chain as the
\* run in every state, and returns the same chain; the two differ only in the
\* progress lines, which the quiet one never prints.
C15_QuietOnlyProgress ==
    LET NotProgress(line) == line[1] # "Sample"
        loud == IF quiet THEN twin.out ELSE out
        silent == IF quiet THEN out ELSE twin.out
    IN  /\ twin.pc = pc
        /\ twin.theta = theta
        /\ twin.accepted_steps = accepted_steps
        /\ twin.total_steps = total_steps
        /\ twin.samples = samples
        /\ twin.new_theta = new_theta
        /\ twin.dist = dist
        /\ twin.ret = ret
        /\ twin.err = err
        /\ SelectSeq(loud, NotProgress) = silent
        /\ quiet => printed = {}
        /\ ~quiet => twin.printed = {}

\* both calls have returned a chain of two different vectors after a
\* rejection, and only one of them printed progress
C15_Witness ==
    /\ pc = "done"
    /\ twin.pc = "done"
    /\ n_steps = MaxSteps
    /\ dist_rejected >= 1
    /\ samples[1] # samples[2]
    /\ twin.ret = <<samples>>
    /\ Len(out) # Len(twin.out)

\* the statement of the inline loop that goes with the statement pc of
\* rejection_sampler
InlinePc(p) ==
    CASE p = "count" -> "compare"
      [] p \in ExitPcs -> "end"
      [] p = "error" -> IF err = "ValueError" THEN "error" ELSE "end"
      [] OTHER -> p

\* C20: fed the same candidates, prior verdicts and distance scores, the
\* inline loop is at the corresponding statement with the same theta,
\* accepted_steps, chain, candidate and score as rejection_sampler in every
\* state; it has no counterpart of total_steps, the report and the return.
C20_InlineLoopAgrees ==
    /\ inline.pc = InlinePc(pc)
    /\ inline.theta = theta
    /\ inline.accepted_steps = accepted_steps
    /\ inline.samples = samples
    /\ inline.new_theta = new_theta
    /\ pc \notin {"distance", "propose", "prior", "simulate"} => inline.distance = dist
    /\ ~quiet => (inline.printed = printed /\ \A k \in 1..Len(inline.out) : inline.out[k] = out[k])
    /\ DOMAIN inline = {"theta", "accepted_steps", "samples", "printed", "new_theta",
                        "prior", "distance", "pc", "out", "err"}

\* both loops are over with the same chain of two different vectors, after a
\* rejection on distance that only total_steps recorded
C20_Witness ==
    /\ pc = "done"
    /\ inline.pc = "end"
    /\ n_steps = MaxSteps
    /\ inline.accepted_steps = n_steps
    /\ total_steps > accepted_steps
    /\ inline.samples = samples
    /\ samples[1] # samples[2]

\* C19: the vector the caller passed and the observed dataset keep their
\* content; a proposal leaves theta alone and binds new_theta to a new array,
\* never to the caller's vector; acceptance binds theta to the candidate's
\* array and copies the candidate into the chain, changing neither vector.
C19_CallerDataUntouched ==
    /\ [](caller_theta = theta0 /\ y_obs = Observed)
    /\ [](new_obj # "arg")
    /\ [](theta_obj = "arg" => (theta = caller_theta /\ accepted_steps = 0))
    /\ [](theta_obj # "arg" => (theta_obj = "cur" /\ \E k \in 1..Len(chosen) : theta = chosen[k]))
    /\ [][ /\ caller_theta' = caller_theta
           /\ pc = "propose" => (new_obj' = "new" /\ theta' = theta)
           /\ pc = "set_theta" =>
                 /\ theta_obj' = new_obj'
                 /\ theta' = new_theta
                 /\ new_theta' = new_theta
           /\ pc = "write" =>
                 /\ samples'[accepted_steps + 1] = new_theta
                 /\ theta' = theta
                 /\ new_theta' = new_theta ]_vars

\* theta is bound to an accepted array that differs from the caller's vector,
\* and a later proposal has made yet another array
C19_Witness ==
    /\ pc = "prior"
    /\ accepted_steps >= 1
    /\ theta # theta0
    /\ caller_theta = theta0
    /\ theta_obj = "cur"
    /\ new_obj = "new"
    /\ new_theta # theta

\* the statements at which y_sim is the dataset simulated from new_theta
SimulatedPcs == {"distance", "count", "compare", "set_theta", "write", "incr"}

ProgressLines == SelectSeq(out, LAMBDA line : line[1] = "Sample")

\* C22: a quiet run prints no progress line; otherwise every progress line
\* is 'Sample k of n_steps' for a multiple k of 1000 below n_steps that
\* accepted_steps has reached, no k is reported twice however many
\* iterations pass at that k, and printed is the set of the reported k.
C22_ProgressOncePerK ==
    /\ quiet => (ProgressLines = <<>> /\ printed = {})
    /\ \A i \in 1..Len(ProgressLines) :
          /\ ProgressLines[i][2] % PrintEvery = 0
          /\ ProgressLines[i][2] < n_steps
          /\ ProgressLines[i][2] <= accepted_steps
          /\ ProgressLines[i][3] = n_steps
          /\ \A j \in 1..Len(ProgressLines) :
                ProgressLines[i][2] = ProgressLines[j][2] => i = j
    /\ printed = {ProgressLines[i][2] : i \in 1..Len(ProgressLines)}
    /\ (~quiet /\ pc \in BodyPcs \ {"progress"} /\ accepted_steps % PrintEvery = 0) =>
          accepted_steps \in printed

\* a third iteration at accepted_steps = 0 is past the progress block, after
\* rejections on the prior and on distance, with one progress line printed
C22_Witness ==
    /\ ~quiet
    /\ pc = "propose"
    /\ accepted_steps = 0
    /\ dist_rejected >= 1
    /\ LastFailedPrior
    /\ Len(out) = 1
    /\ out[1] = <<"Sample", 0, n_steps>>

\* the statements before the acceptance and after the loop, at which theta is
\* the theta of the start of the iteration
SeedPcs == {"while", "progress", "propose", "prior", "simulate", "distance",
            "count", "compare"} \cup ExitPcs

\* the last accepted sample: initial_theta before the first acceptance, then
\* the chain slot written last (row accepted_steps - 1, counted from 0)
LastAccepted == IF accepted_steps = 0 THEN theta0 ELSE samples[accepted_steps]

\* C23: from the loop test to the acceptance test of every iteration theta
\* is initial_theta while accepted_steps = 0 and the content of the chain
\* slot written last otherwise, and the candidate is a perturbation of it.
C23_SeededByLastAccepted ==
    /\ pc \in SeedPcs => theta = LastAccepted
    /\ pc \in {"prior", "simulate", "distance", "count", "compare"} =>
          \E z \in randn(Len(theta0)) :
              new_theta = propose_step(LastAccepted, scale, z)

\* a candidate drawn from the chain's latest slot, which is not initial_theta,
\* in an iteration after a rejection
C23_Witness ==
    /\ pc = "prior"
    /\ accepted_steps >= 1
    /\ theta = samples[accepted_steps]
    /\ theta # theta0
    /\ new_theta # theta
    /\ dist_rejected >= 1

\* C24: what the prior, the simulator and the distance receive and what is
\* written to the chain is the array of the latest proposal, never the
\* caller's vector; initial_theta is not checked, so a run from outside the
\* prior support raises nothing, and slot 0 holds the first accepted
\* candidate (which is inside the support, so not such an initial_theta).
C24_InitialThetaUnchecked ==
    /\ new_obj # "arg"
    /\ pc \in {"prior", "simulate", "distance", "count", "compare", "set_theta"} =>
          new_obj = "new"
    /\ pc \in {"write", "incr"} => new_obj = "cur"
    /\ Filled >= 1 => samples[1] = chosen[1]
    /\ ~InSupport(theta0) => \A k \in 1..Filled : samples[k] # theta0
    /\ Sampling => err = ""

\* a run from an initial_theta outside the support has returned a full chain
C24_Witness ==
    /\ pc = "done"
    /\ Len(theta0) = Dim
    /\ ~InSupport(theta0)
    /\ n_steps = MaxSteps
    /\ samples[1] = chosen[1]
    /\ samples[1] # theta0
    /\ ret = <<samples>>

\* C25: with n_steps = 0 no statement of the loop body runs: nothing is
\* proposed, counted or printed, and the run goes from the loop test to the
\* report, which divides by total_steps = 0 and raises; nothing is returned.
C25_ZeroStepsDivides ==
    n_steps = 0 =>
        /\ pc \in {"while", "report", "error"}
        /\ total_steps = 0
        /\ accepted_steps = 0
        /\ new_theta = <<>>
        /\ passed = 0
        /\ out = <<>>
        /\ printed = {}
        /\ ret = <<>>
        /\ samples = <<>>
        /\ pc = "error" <=> err = "ZeroDivisionError"

\* the run asked for no sample and has ended in the division by zero
C25_Witness ==
    /\ n_steps = 0
    /\ pc = "error"
    /\ err = "ZeroDivisionError"
    /\ total_steps = 0
    /\ ret = <<>>

====
